---- MODULE Spec2Model ----
(***************************************************************************)
(* A model of claude-init.py: the plan model (FilePlan), the resolution    *)
(* engine (resolve_conflicts), the execution engine (execute_plans,        *)
(* backup_and_copy) and the two commands that drive them                   *)
(* (cmd_init_globals, cmd_init_project).                                    *)
(*                                                                         *)
(* A path is a sequence of components; a file is a record of its data (a   *)
(* sequence of tokens), its owner-executable bit and its modification time *)
(* (a tick of the clock; files older than the first run have times < 0).  The filesystem is    *)
(* fs (the regular files) and dirs (the directories).                      *)
(***************************************************************************)
EXTENDS Integers, Sequences, FiniteSets, TLC

VARIABLES
    args,         \* the parsed command line (or the harness, for the engine alone)
    fs,           \* path -> [data, exec, mtime] for every regular file that exists
    dirs,         \* the directories that exist
    plans,        \* the plan list: a sequence of FilePlan records
    pc,           \* where the run is
    force,        \* resolve_conflicts' force argument of the current call
    idx,          \* the position of the loop over plans (per-file, execute)
    prompts,      \* the prompts issued by the current run (or engine call)
    counts,       \* execute_plans' installed, updated, skipped
    clock,        \* wall-clock time in ticks
    backup_base,  \* execute_plans' backup_base argument (<<>> before it is set)
    tmp_paths,    \* cmd_init_project's tmp_paths
    gi_has_entry, \* cmd_init_project's gi_has_entry
    exit_code,    \* -1 while the process runs, then its exit status
    run,          \* the number of runs started so far
    calls,        \* the number of resolve_conflicts calls made on this list
    pre           \* fs and dirs as the run found them and, once execute_plans is
                  \* called, as they were at the call

vars == <<args, fs, dirs, plans, pc, force, idx, prompts, counts, clock,
          backup_base, tmp_paths, gi_has_entry, exit_code, run, calls, pre>>

-----------------------------------------------------------------------------
(* Bounds *)

\* the longest plan list handed to the engine alone
MaxPlans == 2
\* the most resolve_conflicts calls made on one list
MaxCalls == 2
\* the most runs of a command in one behaviour
MaxRuns == 2
\* the most source files absent from an otherwise complete toolkit or template set
MaxMissing == 1
\* the most destination files that exist before the first run
MaxExisting == 1
\* the most conflicts the user still decides file by file
MaxConfirm == 2
\* the last tick the clock reaches
MaxTick == 2
\* ticks per second: strftime("%Y%m%d-%H%M%S") keeps whole seconds only
TicksPerSecond == 2

-----------------------------------------------------------------------------
(* Paths and files *)

Name(p) == p[Len(p)]

Parent(p) == SubSeq(p, 1, Len(p) - 1)

\* d and every ancestor of d: what mkdir(parents=True, exist_ok=True) ensures
Ancestors(d) == { SubSeq(d, 1, k) : k \in 1..Len(d) }

Exists(f, ds, p) == p \in DOMAIN f \/ p \in ds

File(data, exec, mtime) == [data |-> data, exec |-> exec, mtime |-> mtime]

Put(f, p, file) == (p :> file) @@ f

\* what a copy that fails part-way can leave in the target: a proper prefix
Prefixes(data) == { SubSeq(data, 1, k) : k \in 0..(Len(data) - 1) }

\* shutil.copy2(src, dst), every outcome: the copy (data, mode and modification
\* time), or a failure that leaves dst as it was (missing source, same file,
\* missing parent, permission) or holding a proper prefix of the data, written
\* now (the write broke off)
Copy2(f, ds, src, dst) ==
    IF src \notin DOMAIN f \/ src = dst \/ Parent(dst) \notin ds \/ dst \in ds
    THEN {[ok |-> FALSE, fs |-> f]}
    ELSE {[ok |-> TRUE, fs |-> Put(f, dst, f[src])]}
         \cup {[ok |-> FALSE, fs |-> f]}
         \cup {[ok |-> FALSE,
                fs |-> Put(f, dst, File(d, IF dst \in DOMAIN f THEN f[dst].exec ELSE FALSE, clock))]
               : d \in Prefixes(f[src].data)}

\* Path.mkdir(parents=True, exist_ok=True), every outcome: nothing to do when d
\* exists; FileExistsError/NotADirectoryError when a regular file is in the way;
\* otherwise d and its ancestors are made, or the call fails
Mkdir(f, ds, d) ==
    IF d \in ds
    THEN {[ok |-> TRUE, dirs |-> ds]}
    ELSE IF \E a \in Ancestors(d) : a \in DOMAIN f
    THEN {[ok |-> FALSE, dirs |-> ds]}
    ELSE {[ok |-> TRUE, dirs |-> ds \cup Ancestors(d)], [ok |-> FALSE, dirs |-> ds]}

-----------------------------------------------------------------------------
(* Data model *)

\* FilePlan.__post_init__: conflict is computed once, at construction
FilePlan(src, dest, always_update, f, ds) ==
    [src |-> src, dest |-> dest, always_update |-> always_update,
     conflict |-> Exists(f, ds, dest) /\ ~always_update,
     action |-> "pending"]

Actions(ps) == [k \in DOMAIN ps |-> ps[k].action]

Conflicts(ps) == { k \in DOMAIN ps : ps[k].conflict }

-----------------------------------------------------------------------------
(* Where control goes when a callee is left *)

IsEngine == args.command = "engine"

\* resolve_conflicts returns: to the harness, or to the command's next line
AfterResolve == IF IsEngine THEN "harness" ELSE "time"

\* sys.exit(0) in resolve_conflicts: SystemExit passes through init-project's
\* finally block, and ends the process anywhere else
AfterQuit == IF args.command = "init-project" THEN "finally" ELSE "exit"

\* a variant in which init-globals catches the exception and prints its summary
AfterRaiseSummary == IF args.command = "init-project" THEN "finally" ELSE "summary"

\* a variant in which init-project catches the exception and goes on
AfterRaiseGoesOn == IF args.command = "init-project" THEN "gitignore" ELSE "exit"

\* an exception leaves execute_plans (or the command's own code)
AfterRaise == IF args.command = "init-project" THEN "finally" ELSE "exit"

\* execute_plans returns its counts
AfterExecute ==
    IF IsEngine THEN "returned"
    ELSE IF args.command = "init-project" THEN "gitignore" ELSE "summary"

-----------------------------------------------------------------------------
(* resolve_conflicts *)

\* a variant that passes over the plans execute_plans copies whatever their action
InstallActionSparesAlways(p) == IF p.always_update THEN "pending" ELSE "install"

InstallAction(p) == "install"

\* a variant that overwrites whether or not there is a conflict
OverwriteActionAnyway(p) == "update"

OverwriteAction(p) == IF p.conflict THEN "update" ELSE "install"

\* a variant that overwrites what it was told to skip
SkipActionOverwrites(p) == IF p.conflict THEN "update" ELSE "install"

\* a variant that skips whether or not there is a conflict
SkipActionAnyway(p) == "skip"

SkipAction(p) == IF p.conflict THEN "skip" ELSE "install"

\* the right-hand side of the assignment in each of the three loops
Decide(how, p) ==
    IF how = "install" THEN InstallAction(p)
    ELSE IF how = "overwrite" THEN OverwriteAction(p)
    ELSE SkipAction(p)

\* a variant that assigns to every plan, decided or not
AssignAll(ps, how) ==
    [k \in DOMAIN ps |-> [ps[k] EXCEPT !.action = Decide(how, ps[k])]]

\* for p in plans: if p.action == "pending": p.action = ...
Assign(ps, how) ==
    [k \in DOMAIN ps |->
        IF ps[k].action = "pending"
        THEN [ps[k] EXCEPT !.action = Decide(how, ps[k])]
        ELSE ps[k]]

\* a prompt of the log: what was asked, about which plan, and the answer
Select(choice) == [kind |-> "select", plan |-> 0, answer |-> choice]

Confirm(k, answer) == [kind |-> "confirm", plan |-> k, answer |-> answer]

\* the four choices of the aggregate prompt, and None for a dismissed prompt
Choices == {"Overwrite all", "Skip all existing", "Decide per file", "Quit", "None"}

\* the answers tried: the user decides per file only when the conflicts are few
Offered(ps) ==
    IF Cardinality(Conflicts(ps)) <= MaxConfirm THEN Choices ELSE Choices \ {"Decide per file"}

Answers == {"yes", "no", "None"}

\* lines 86-90: no conflicts, everything is new
ResolveNoConflicts ==
    /\ pc = "resolve"
    /\ Conflicts(plans) = {}
    /\ plans' = Assign(plans, "install")
    /\ pc' = AfterResolve
    /\ UNCHANGED <<args, fs, dirs, force, idx, prompts, counts, clock, backup_base,
                   tmp_paths, gi_has_entry, exit_code, run, calls, pre>>

\* lines 93-100: --force
ResolveForce ==
    /\ pc = "resolve"
    /\ Conflicts(plans) # {}
    /\ force
    /\ plans' = Assign(plans, "overwrite")
    /\ pc' = AfterResolve
    /\ UNCHANGED <<args, fs, dirs, force, idx, prompts, counts, clock, backup_base,
                   tmp_paths, gi_has_entry, exit_code, run, calls, pre>>

\* what the aggregate answer does to the plan list (lines 132-140); Decide per
\* file and the answers that leave the process assign nothing here
SelectPlans(ps, choice) ==
    IF choice = "Overwrite all" THEN Assign(ps, "overwrite")
    ELSE IF choice = "Skip all existing" THEN Assign(ps, "skip")
    ELSE ps

\* where the aggregate answer sends control (lines 128-142)
SelectPc(choice) ==
    IF choice \in {"None", "Quit"} THEN AfterQuit
    ELSE IF choice = "Decide per file" THEN "per_file"
    ELSE AfterResolve

\* lines 103-142: the aggregate prompt and its answer
ResolveSelect ==
    /\ pc = "resolve"
    /\ Conflicts(plans) # {}
    /\ ~force
    /\ \E choice \in Offered(plans) :
        /\ prompts' = Append(prompts, Select(choice))
        /\ plans' = SelectPlans(plans, choice)
        /\ pc' = SelectPc(choice)
        /\ exit_code' = IF choice \in {"None", "Quit"} THEN 0 ELSE exit_code
        /\ idx' = IF choice = "Decide per file" THEN 1 ELSE idx
    /\ UNCHANGED <<args, fs, dirs, force, counts, clock, backup_base,
                   tmp_paths, gi_has_entry, run, calls, pre>>

\* a variant that takes a dismissed confirmation for a yes
ConfirmActionUnlessNo(answer) == IF answer = "no" THEN "skip" ELSE "update"

\* line 153: p.action = "update" if answer else "skip"
ConfirmAction(answer) == IF answer = "yes" THEN "update" ELSE "skip"

\* lines 143-153: one iteration of the per-file loop
ResolvePerFile ==
    /\ pc = "per_file"
    /\ idx \in DOMAIN plans
    /\ LET p == plans[idx] IN
        IF p.action # "pending"
        THEN UNCHANGED <<plans, prompts>>
        ELSE IF ~p.conflict
        THEN /\ plans' = [plans EXCEPT ![idx].action = "install"]
             /\ UNCHANGED prompts
        ELSE \E answer \in Answers :
             /\ prompts' = Append(prompts, Confirm(idx, answer))
             /\ plans' = [plans EXCEPT ![idx].action = ConfirmAction(answer)]
    /\ idx' = idx + 1
    /\ pc' = IF idx = Len(plans) THEN AfterResolve ELSE "per_file"
    /\ UNCHANGED <<args, fs, dirs, force, counts, clock, backup_base,
                   tmp_paths, gi_has_entry, exit_code, run, calls, pre>>

-----------------------------------------------------------------------------
(* execute_plans *)

\* a variant that sets the count instead of adding to it
BumpSets(c, field) == [c EXCEPT ![field] = 1]

Bump(c, field) == [c EXCEPT ![field] = @ + 1]

\* backup_base / dest.name (line 76)
BackupDest(base, dest) == Append(base, Name(dest))

\* an exception propagates: the process is left with a failure status
Raise ==
    /\ pc' = AfterRaise
    /\ exit_code' = 1

\* lines 163-165: the always_update plan's mkdir and copy
ExecAlwaysCopy ==
    /\ pc = "execute"
    /\ idx \in DOMAIN plans
    /\ plans[idx].always_update
    /\ LET p == plans[idx] IN
       \E m \in Mkdir(fs, dirs, Parent(p.dest)) :
        /\ dirs' = m.dirs
        /\ IF ~m.ok
           THEN Raise /\ UNCHANGED fs
           ELSE \E c \in Copy2(fs, m.dirs, p.src, p.dest) :
                /\ fs' = c.fs
                /\ IF c.ok
                   THEN pc' = "chmod" /\ UNCHANGED exit_code
                   ELSE Raise
    /\ UNCHANGED <<args, plans, force, idx, prompts, counts, clock, backup_base,
                   tmp_paths, gi_has_entry, run, calls, pre>>

\* a variant that leaves the mode as the copy made it
Chmod755Kept(f, p) == {[ok |-> TRUE, fs |-> f], [ok |-> FALSE, fs |-> f]}

\* p.dest.chmod(0o755), every outcome
Chmod755(f, p) == {[ok |-> TRUE, fs |-> Put(f, p, File(f[p].data, TRUE, f[p].mtime))],
                   [ok |-> FALSE, fs |-> f]}

\* lines 166-168: the always_update plan's chmod and count
ExecAlwaysChmod ==
    /\ pc = "chmod"
    /\ \E c \in Chmod755(fs, plans[idx].dest) :
        /\ fs' = c.fs
        /\ IF c.ok
           THEN /\ counts' = Bump(counts, "updated")
                /\ idx' = idx + 1
                /\ pc' = "execute"
                /\ UNCHANGED exit_code
           ELSE Raise /\ UNCHANGED <<counts, idx>>
    /\ UNCHANGED <<args, dirs, plans, force, prompts, clock, backup_base,
                   tmp_paths, gi_has_entry, run, calls, pre>>

\* lines 170-174: install
ExecInstall ==
    /\ pc = "execute"
    /\ idx \in DOMAIN plans
    /\ ~plans[idx].always_update
    /\ plans[idx].action = "install"
    /\ LET p == plans[idx] IN
       \E m \in Mkdir(fs, dirs, Parent(p.dest)) :
        /\ dirs' = m.dirs
        /\ IF ~m.ok
           THEN Raise /\ UNCHANGED <<fs, counts, idx>>
           ELSE \E c \in Copy2(fs, m.dirs, p.src, p.dest) :
                /\ fs' = c.fs
                /\ IF c.ok
                   THEN /\ counts' = Bump(counts, "installed")
                        /\ idx' = idx + 1
                        /\ UNCHANGED <<pc, exit_code>>
                   ELSE Raise /\ UNCHANGED <<counts, idx>>
    /\ UNCHANGED <<args, plans, force, prompts, clock, backup_base,
                   tmp_paths, gi_has_entry, run, calls, pre>>

\* backup_and_copy, lines 75-77: make backup_base, copy dest into it
ExecBackup ==
    /\ pc = "execute"
    /\ idx \in DOMAIN plans
    /\ ~plans[idx].always_update
    /\ plans[idx].action = "update"
    /\ LET p == plans[idx] IN
       \E m \in Mkdir(fs, dirs, backup_base) :
        /\ dirs' = m.dirs
        /\ IF ~m.ok
           THEN Raise /\ UNCHANGED fs
           ELSE \E c \in Copy2(fs, m.dirs, p.dest, BackupDest(backup_base, p.dest)) :
                /\ fs' = c.fs
                /\ IF c.ok
                   THEN pc' = "overwrite" /\ UNCHANGED exit_code
                   ELSE Raise
    /\ UNCHANGED <<args, plans, force, idx, prompts, counts, clock, backup_base,
                   tmp_paths, gi_has_entry, run, calls, pre>>

\* backup_and_copy, line 78, then lines 178-181: overwrite dest, count it
ExecOverwrite ==
    /\ pc = "overwrite"
    /\ LET p == plans[idx] IN
       \E c \in Copy2(fs, dirs, p.src, p.dest) :
        /\ fs' = c.fs
        /\ IF c.ok
           THEN /\ counts' = Bump(counts, "updated")
                /\ idx' = idx + 1
                /\ pc' = "execute"
                /\ UNCHANGED exit_code
           ELSE Raise /\ UNCHANGED <<counts, idx>>
    /\ UNCHANGED <<args, dirs, plans, force, prompts, clock, backup_base,
                   tmp_paths, gi_has_entry, run, calls, pre>>

\* lines 183-187: skip
ExecSkip ==
    /\ pc = "execute"
    /\ idx \in DOMAIN plans
    /\ ~plans[idx].always_update
    /\ plans[idx].action = "skip"
    /\ counts' = Bump(counts, "skipped")
    /\ idx' = idx + 1
    /\ UNCHANGED <<args, fs, dirs, plans, pc, force, prompts, clock, backup_base,
                   tmp_paths, gi_has_entry, exit_code, run, calls, pre>>

\* line 189: return installed, updated, skipped
ExecReturn ==
    /\ pc = "execute"
    /\ idx = Len(plans) + 1
    /\ pc' = AfterExecute
    /\ UNCHANGED <<args, fs, dirs, plans, force, idx, prompts, counts, clock,
                   backup_base, tmp_paths, gi_has_entry, exit_code, run, calls, pre>>

Resolve == ResolveNoConflicts \/ ResolveForce \/ ResolveSelect \/ ResolvePerFile

Execute ==
    \/ ExecAlwaysCopy \/ ExecAlwaysChmod \/ ExecInstall
    \/ ExecBackup \/ ExecOverwrite \/ ExecSkip \/ ExecReturn

-----------------------------------------------------------------------------
(* The engine alone: resolve_conflicts and execute_plans called on any list *)

NoCounts == [installed |-> 0, updated |-> 0, skipped |-> 0]

EngineArgs == [command |-> "engine", force |-> FALSE, source_from |-> FALSE,
               no_mcp |-> FALSE, collection |-> FALSE, file |-> <<>>]

EngineDests == { <<"out", "a", "x.txt">>, <<"out", "b", "x.txt">>, <<"out", "a", "y.txt">> }

EngineSrc(k) == <<"in", ToString(k)>>

EngineBackup == <<"out", "backups", "run">>

NewData(p) == <<"new">> \o p

OldData(p) == <<"old">> \o p

\* the sources exist; any of the destinations may, each with content of its own
EngineFs(existing) ==
    [p \in { EngineSrc(k) : k \in 1..MaxPlans } \cup existing |->
        IF p \in existing THEN File(OldData(p), FALSE, -2) ELSE File(NewData(p), FALSE, -1)]

\* no two plans of a list target the same destination
Injections(S, T) == { g \in [S -> T] : \A x, y \in S : x # y => g[x] # g[y] }

DirsOf(f) == UNION { Ancestors(Parent(p)) : p \in DOMAIN f }

\* a list of plans made on a file system, their actions drawn from a set
InitEngineWith(actions) ==
    /\ args = EngineArgs
    /\ \E existing \in SUBSET EngineDests : fs = EngineFs(existing)
    /\ dirs = DirsOf(fs)
    /\ \E n \in 0..MaxPlans :
       \E dest \in Injections(1..n, EngineDests), always \in [1..n -> BOOLEAN],
          action \in [1..n -> actions] :
          plans = [k \in 1..n |->
                    [FilePlan(EngineSrc(k), dest[k], always[k], fs, dirs)
                        EXCEPT !.action = action[k]]]
    /\ pc = "harness"
    /\ force = FALSE
    /\ idx = 0
    /\ prompts = <<>>
    /\ counts = NoCounts
    /\ clock = 0
    /\ backup_base = <<>>
    /\ tmp_paths = <<>>
    /\ gi_has_entry = FALSE
    /\ exit_code = -1
    /\ run = 1
    /\ calls = 0
    /\ pre = [fs |-> fs, dirs |-> dirs]

\* freshly made plans: every action is pending
InitEngine == InitEngineWith({"pending"})

\* the harness calls resolve_conflicts(plans, f)
CallResolve ==
    /\ pc = "harness"
    /\ calls < MaxCalls
    /\ \E f \in BOOLEAN : force' = f
    /\ calls' = calls + 1
    /\ prompts' = <<>>
    /\ pc' = "resolve"
    /\ UNCHANGED <<args, fs, dirs, plans, idx, counts, clock, backup_base,
                   tmp_paths, gi_has_entry, exit_code, run, pre>>

\* the harness calls execute_plans(plans, backup_base) on the resolved list
CallExecute ==
    /\ pc = "harness"
    /\ calls >= 1
    /\ backup_base' = EngineBackup
    /\ idx' = 1
    /\ counts' = NoCounts
    /\ pre' = [fs |-> fs, dirs |-> dirs]
    /\ pc' = "execute"
    /\ UNCHANGED <<args, fs, dirs, plans, force, prompts, clock,
                   tmp_paths, gi_has_entry, exit_code, run, calls>>

NextEngine == CallResolve \/ CallExecute \/ Resolve \/ Execute

SpecEngine == InitEngine /\ [][NextEngine]_vars

\* resolve_conflicts alone, called on lists that are decided in part or in full
InitPartial == InitEngineWith({"pending", "install", "update", "skip"})

NextPartial == CallResolve \/ Resolve

SpecPartial == InitPartial /\ [][NextPartial]_vars

-----------------------------------------------------------------------------
(* Constants of the two commands *)

HOME == <<"~">>

CLAUDE_DIR == HOME \o <<".claude">>

AGENTS_DIR == CLAUDE_DIR \o <<"agents">>

TEMPLATES_DIR == CLAUDE_DIR \o <<"templates">>

BIN_DIR == CLAUDE_DIR \o <<"bin">>

\* the toolkit checkout, and the script in it
Toolkit == <<"toolkit">>

ToolkitScript == Toolkit \o <<"claude-init.py">>

\* the script as init-globals installs it
InstalledScript == BIN_DIR \o <<"claude-init">>

\* Path.cwd() of init-project
Cwd == <<"myapp">>

GlobalClaudeNames == <<"CLAUDE.global-template.md", "CLAUDE.md">>

AgentNames == <<"architect.md", "developer.md", "tester.md", "documentator.md">>

TemplateNames == <<"CLAUDE.project-template.md", "CONVENTIONS.md", "session-notes.md",
                   "settings.json", "settings.local.json", ".mcp.json.template">>

GiEntry == ".claude/settings.local.json"

GiComment == "# Claude Code - personal settings"

NL == "\n"

\* datetime.now().strftime("%Y%m%d-%H%M%S"): the tick's whole second
Stamp(t) == ToString(t \div TicksPerSecond)

\* the directory the backups of a run go to (lines 311, 464-466)
BackupBase(command, t) ==
    (IF command = "init-globals" THEN CLAUDE_DIR ELSE Cwd \o <<".claude">>)
        \o <<"backups", Stamp(t)>>

\* tempfile.NamedTemporaryFile(prefix="claude_init_", suffix=...): a name no
\* other file has, standing for prefix + random part + suffix
TempName(r, suffix) == <<"tmp", "claude_init_", ToString(r), suffix>>

\* str.replace on a text of tokens
Replace(data, old, new) == [k \in DOMAIN data |-> IF data[k] = old THEN new ELSE data[k]]

\* what the toolkit's file of this name holds
ToolkitData(name) ==
    IF name = "CLAUDE.project-template.md" THEN <<name, "<project-name>">>
    ELSE IF name = ".mcp.json.template" THEN <<name, "your-collection-name", "project-search">>
    ELSE <<"toolkit", name>>

-----------------------------------------------------------------------------
(* init-globals *)

\* detect_source_dir: the script's directory if it holds agents/ and templates/,
\* else none (sys.exit(1))
detect_source_dir(file, ds) ==
    LET script_dir == Parent(file) IN
    IF script_dir \o <<"agents">> \in ds /\ script_dir \o <<"templates">> \in ds
    THEN <<script_dir>>
    ELSE <<>>

\* lines 230-232: --from is taken as given, else the directory is detected
SourceDir(a, ds) ==
    IF a.source_from THEN <<Toolkit>> ELSE detect_source_dir(a.file, ds)

\* find_global_claude_md: the first of the two names that exists, else none
find_global_claude_md(f, ds, source_dir) ==
    LET Found(name) == Exists(f, ds, Append(source_dir, name))
        found == SelectSeq(GlobalClaudeNames, Found)
    IN IF found = <<>> THEN <<>> ELSE <<Append(source_dir, found[1])>>

\* one plan for each name whose source exists (lines 254-280)
PlansFor(f, ds, names, src_dir, dest_dir) ==
    LET Found(name) == Exists(f, ds, Append(src_dir, name))
        found == SelectSeq(names, Found)
    IN [k \in DOMAIN found |->
            FilePlan(Append(src_dir, found[k]), Append(dest_dir, found[k]), FALSE, f, ds)]

\* lines 242-290: the plan list of init-globals
GlobalPlans(f, ds, source_dir, file) ==
    LET claude_src == find_global_claude_md(f, ds, source_dir) IN
    (IF claude_src # <<>>
     THEN <<FilePlan(claude_src[1], Append(CLAUDE_DIR, "CLAUDE.md"), FALSE, f, ds)>>
     ELSE <<>>)
    \o PlansFor(f, ds, AgentNames, Append(source_dir, "agents"), AGENTS_DIR)
    \o PlansFor(f, ds, TemplateNames, Append(source_dir, "templates"), TEMPLATES_DIR)
    \o <<FilePlan(file, InstalledScript, TRUE, f, ds)>>

\* lines 229-300: the source directory, the plan list, the pre-scan report
InitGlobalsPlan ==
    /\ pc = "main"
    /\ args.command = "init-globals"
    /\ LET source_dir == SourceDir(args, dirs) IN
       IF source_dir = <<>>
       THEN /\ pc' = "exit"
            /\ exit_code' = 1
            /\ UNCHANGED plans
       ELSE /\ plans' = GlobalPlans(fs, dirs, source_dir[1], args.file)
            /\ pc' = "mkdirs"
            /\ UNCHANGED exit_code
    /\ UNCHANGED <<args, fs, dirs, force, idx, prompts, counts, clock, backup_base,
                   tmp_paths, gi_has_entry, run, calls, pre>>

\* the directories of ds in order, until one fails
RECURSIVE MkdirAll(_, _, _)
MkdirAll(f, ds, todo) ==
    IF todo = <<>>
    THEN {[ok |-> TRUE, dirs |-> ds]}
    ELSE UNION { IF m.ok THEN MkdirAll(f, m.dirs, Tail(todo)) ELSE {m}
                 : m \in Mkdir(f, ds, Head(todo)) }

\* lines 303-308: the four directories, then resolve_conflicts is called
InitGlobalsMkdirs ==
    /\ pc = "mkdirs"
    /\ \E m \in MkdirAll(fs, dirs, <<CLAUDE_DIR, AGENTS_DIR, TEMPLATES_DIR, BIN_DIR>>) :
        /\ dirs' = m.dirs
        /\ IF m.ok
           THEN /\ pc' = "resolve"
                /\ force' = args.force
                /\ UNCHANGED exit_code
           ELSE Raise /\ UNCHANGED force
    /\ UNCHANGED <<args, fs, plans, idx, prompts, counts, clock, backup_base,
                   tmp_paths, gi_has_entry, run, calls, pre>>

\* lines 311-312 and 464-467: backup_base from the time, then execute_plans
ReadTime ==
    /\ pc = "time"
    /\ backup_base' = BackupBase(args.command, clock)
    /\ idx' = 1
    /\ counts' = NoCounts
    /\ pre' = [fs |-> fs, dirs |-> dirs]
    /\ pc' = "execute"
    /\ UNCHANGED <<args, fs, dirs, plans, force, prompts, clock,
                   tmp_paths, gi_has_entry, exit_code, run, calls>>

\* lines 314-331: the summary; the command returns and the process ends
InitGlobalsSummary ==
    /\ pc = "summary"
    /\ pc' = "exit"
    /\ exit_code' = 0
    /\ UNCHANGED <<args, fs, dirs, plans, force, idx, prompts, counts, clock,
                   backup_base, tmp_paths, gi_has_entry, run, calls, pre>>

InitGlobals == InitGlobalsPlan \/ InitGlobalsMkdirs \/ InitGlobalsSummary

-----------------------------------------------------------------------------
(* init-project *)

\* args.name or Path.cwd().name
project_name == Name(Cwd)

\* lines 338-343: the templates must be installed
InitProjectStart ==
    /\ pc = "main"
    /\ args.command = "init-project"
    /\ IF TEMPLATES_DIR \notin dirs
       THEN pc' = "exit" /\ exit_code' = 1
       ELSE pc' = "render" /\ UNCHANGED exit_code
    /\ UNCHANGED <<args, fs, dirs, plans, force, idx, prompts, counts, clock,
                   backup_base, tmp_paths, gi_has_entry, run, calls, pre>>

\* NamedTemporaryFile(delete=False), write, close: every outcome.  The file is
\* made and filled; or nothing is made (the template cannot be read, the file
\* cannot be created); or the file is made and the write or the close fails,
\* leaving a proper prefix of the content in it.
WriteTemp(f, path, content) ==
    {[ok |-> TRUE, fs |-> Put(f, path, File(content, FALSE, clock))],
     [ok |-> FALSE, fs |-> f]}
    \cup {[ok |-> FALSE, fs |-> Put(f, path, File(d, FALSE, clock))] : d \in Prefixes(content)}

\* lines 363-377: CLAUDE.md, rendered from the template into a temporary file
InitProjectRender ==
    /\ pc = "render"
    /\ LET claude_tpl == Append(TEMPLATES_DIR, "CLAUDE.project-template.md")
           rendered_claude == TempName(run, ".md")
       IN
       IF Exists(fs, dirs, claude_tpl)
       THEN \E w \in WriteTemp(fs, rendered_claude,
                               Replace(fs[claude_tpl].data, "<project-name>", project_name)) :
            /\ fs' = w.fs
            /\ IF w.ok
               THEN /\ tmp_paths' = Append(tmp_paths, rendered_claude)
                    /\ plans' = Append(plans, FilePlan(rendered_claude, Append(Cwd, "CLAUDE.md"),
                                                       FALSE, fs, dirs))
                    /\ pc' = "plans"
                    /\ UNCHANGED exit_code
               ELSE Raise /\ UNCHANGED <<tmp_paths, plans>>
       ELSE /\ pc' = "plans"
            /\ UNCHANGED <<fs, tmp_paths, plans, exit_code>>
    /\ UNCHANGED <<args, dirs, force, idx, prompts, counts, clock, backup_base,
                   gi_has_entry, run, calls, pre>>

\* a variant whose last plan names the destination of the one before it
FixedPlansTwice(f, ds) ==
    <<FilePlan(Append(TEMPLATES_DIR, "CONVENTIONS.md"), Append(Cwd, "CONVENTIONS.md"),
               FALSE, f, ds),
      FilePlan(Append(TEMPLATES_DIR, "session-notes.md"), Cwd \o <<"docs", "session-notes.md">>,
               FALSE, f, ds),
      FilePlan(Append(TEMPLATES_DIR, "settings.json"), Cwd \o <<".claude", "settings.json">>,
               FALSE, f, ds),
      FilePlan(Append(TEMPLATES_DIR, "settings.local.json"),
               Cwd \o <<".claude", "settings.json">>, FALSE, f, ds)>>

\* lines 379-413: the four plans that are always made
FixedPlans(f, ds) ==
    <<FilePlan(Append(TEMPLATES_DIR, "CONVENTIONS.md"), Append(Cwd, "CONVENTIONS.md"),
               FALSE, f, ds),
      FilePlan(Append(TEMPLATES_DIR, "session-notes.md"), Cwd \o <<"docs", "session-notes.md">>,
               FALSE, f, ds),
      FilePlan(Append(TEMPLATES_DIR, "settings.json"), Cwd \o <<".claude", "settings.json">>,
               FALSE, f, ds),
      FilePlan(Append(TEMPLATES_DIR, "settings.local.json"),
               Cwd \o <<".claude", "settings.local.json">>, FALSE, f, ds)>>

\* f"{project_name}-search"
project_search == "myapp-search"

\* lines 420-424: the two placeholders of the MCP template
RenderMcp(data, collection) ==
    Replace(Replace(data, "your-collection-name", collection),
            "project-search", project_search)

\* a line of which gi_entry is a part, without being the whole of it
GiLonger == "backup/.claude/settings.local.json"

\* gi_entry in <line>: a substring match
ContainsEntry(line) == line \in {GiEntry, GiLonger}

\* gi_entry in gi_path.read_text()
HasEntry(data) == \E k \in DOMAIN data : ContainsEntry(data[k])

\* a variant that never finds the entry
GiHasEntryNever(f, gi_path) == FALSE

\* line 452
GiHasEntry(f, gi_path) == gi_path \in DOMAIN f /\ HasEntry(f[gi_path].data)

\* lines 379-461: the fixed plans, the MCP plan (rendered when --collection is
\* given), the pre-scan and the .gitignore check, then resolve_conflicts is called
InitProjectPlans ==
    /\ pc = "plans"
    /\ LET mcp_tpl == Append(TEMPLATES_DIR, ".mcp.json.template")
           rendered_mcp == TempName(run, ".json")
           fixed == plans \o FixedPlans(fs, dirs)
           Go == /\ pc' = "resolve"
                 /\ force' = args.force
                 /\ gi_has_entry' = GiHasEntry(fs, Append(Cwd, ".gitignore"))
                 /\ UNCHANGED exit_code
       IN
       IF args.no_mcp \/ ~Exists(fs, dirs, mcp_tpl)
       THEN /\ plans' = fixed
            /\ Go
            /\ UNCHANGED <<fs, tmp_paths>>
       ELSE IF ~args.collection
       THEN /\ plans' = Append(fixed, FilePlan(mcp_tpl, Append(Cwd, ".mcp.json"), FALSE, fs, dirs))
            /\ Go
            /\ UNCHANGED <<fs, tmp_paths>>
       ELSE \E w \in WriteTemp(fs, rendered_mcp, RenderMcp(fs[mcp_tpl].data, "collection")) :
            /\ fs' = w.fs
            /\ IF w.ok
               THEN /\ tmp_paths' = Append(tmp_paths, rendered_mcp)
                    /\ plans' = Append(fixed, FilePlan(rendered_mcp, Append(Cwd, ".mcp.json"),
                                                       FALSE, fs, dirs))
                    /\ Go
               ELSE /\ Raise
                    /\ plans' = fixed
                    /\ UNCHANGED <<tmp_paths, force, gi_has_entry>>
    /\ UNCHANGED <<args, dirs, idx, prompts, counts, clock, backup_base, run, calls, pre>>

\* what lines 471-474 append: a newline if the file is not empty, the comment
\* line, the entry line
GiAppended(data) ==
    (IF data # <<>> THEN <<NL>> ELSE <<>>) \o <<GiComment, NL, GiEntry, NL>>

\* gi_path.open("a") and the writes, every outcome: the lines are appended; or the
\* file cannot be opened; or it is opened (and so made, if it was not there) and
\* the write fails
AppendGitignore(f, gi_path) ==
    LET data == IF gi_path \in DOMAIN f THEN f[gi_path].data ELSE <<>>
        exec == IF gi_path \in DOMAIN f THEN f[gi_path].exec ELSE FALSE
        mtime == IF gi_path \in DOMAIN f THEN f[gi_path].mtime ELSE clock
    IN {[ok |-> TRUE, fs |-> Put(f, gi_path, File(data \o GiAppended(data), exec, clock))],
        [ok |-> FALSE, fs |-> f],
        [ok |-> FALSE, fs |-> Put(f, gi_path, File(data, exec, mtime))]}

\* lines 469-478: the .gitignore entry
InitProjectGitignore ==
    /\ pc = "gitignore"
    /\ IF gi_has_entry
       THEN /\ pc' = "finally"
            /\ UNCHANGED <<fs, counts, exit_code>>
       ELSE \E w \in AppendGitignore(fs, Append(Cwd, ".gitignore")) :
            /\ fs' = w.fs
            /\ IF w.ok
               THEN /\ counts' = Bump(counts, "installed")
                    /\ pc' = "finally"
                    /\ UNCHANGED exit_code
               ELSE Raise /\ UNCHANGED counts
    /\ UNCHANGED <<args, dirs, plans, force, idx, prompts, clock, backup_base,
                   tmp_paths, gi_has_entry, run, calls, pre>>

\* tmp_path.unlink(missing_ok=True) for every path of tmp_paths
UnlinkAll(f, paths) ==
    [q \in DOMAIN f \ { paths[k] : k \in DOMAIN paths } |-> f[q]]

\* lines 480-498: the finally block; then the summary, or the exception or
\* SystemExit that was under way ends the process
InitProjectFinally ==
    /\ pc = "finally"
    /\ fs' = UnlinkAll(fs, tmp_paths)
    /\ pc' = "exit"
    /\ exit_code' = IF exit_code = -1 THEN 0 ELSE exit_code
    /\ UNCHANGED <<args, dirs, plans, force, idx, prompts, counts, clock,
                   backup_base, tmp_paths, gi_has_entry, run, calls, pre>>

InitProject ==
    \/ InitProjectStart \/ InitProjectRender \/ InitProjectPlans
    \/ InitProjectGitignore \/ InitProjectFinally

-----------------------------------------------------------------------------
(* The two commands, run once or again *)

AtMost(S, n) == { T \in SUBSET S : Cardinality(T) <= n }

\* the files of a complete toolkit (beside the script)
ToolkitFiles ==
    { Append(Toolkit, GlobalClaudeNames[k]) : k \in DOMAIN GlobalClaudeNames }
    \cup { Toolkit \o <<"agents", AgentNames[k]>> : k \in DOMAIN AgentNames }
    \cup { Toolkit \o <<"templates", TemplateNames[k]>> : k \in DOMAIN TemplateNames }

\* the toolkit files whose absence is tried
ToolkitMayMiss ==
    { Append(Toolkit, "CLAUDE.global-template.md"), Append(Toolkit, "CLAUDE.md"),
      Toolkit \o <<"agents", "developer.md">>, Toolkit \o <<"templates", "settings.json">> }

\* the destinations of init-globals whose earlier existence is tried
GlobalsMayExist ==
    { Append(CLAUDE_DIR, "CLAUDE.md"), Append(AGENTS_DIR, "architect.md"),
      Append(TEMPLATES_DIR, "CONVENTIONS.md"), InstalledScript }

\* the templates init-globals installed
InstalledTemplates == { Append(TEMPLATES_DIR, TemplateNames[k]) : k \in DOMAIN TemplateNames }

\* the installed templates whose absence is tried
TemplatesMayMiss ==
    { Append(TEMPLATES_DIR, "CLAUDE.project-template.md"), Append(TEMPLATES_DIR, "CONVENTIONS.md"),
      Append(TEMPLATES_DIR, ".mcp.json.template") }

\* the destinations of init-project whose earlier existence is tried
ProjectMayExist ==
    { Append(Cwd, "CLAUDE.md"), Cwd \o <<"docs", "session-notes.md">>, Append(Cwd, ".mcp.json") }

\* the .gitignore files tried: none, empty, without the entry, with it, with it
\* twice, with a longer line that holds it
GitignoreMayHold ==
    { <<>>, <<"node_modules/", NL>>, <<"node_modules/", NL, GiEntry, NL>>,
      <<GiEntry, NL, GiEntry>>, <<GiLonger, NL>> }

\* a file system of sources (as the toolkit ships them) and of older destinations
EnvFs(sources, existing) ==
    [p \in sources \cup existing |->
        IF p \in existing
        THEN File(<<"old", Name(p)>>, p = InstalledScript, -2)
        ELSE File(ToolkitData(Name(p)), FALSE, -1)]

Args(command, f, source_from, no_mcp, collection, file) ==
    [command |-> command, force |-> f, source_from |-> source_from,
     no_mcp |-> no_mcp, collection |-> collection, file |-> file]

\* init-globals: the toolkit is complete but for a few files, or holds only the
\* script; the script runs from the toolkit or from where an earlier run put it
GlobalsEnv(most_missing) ==
    \E missing \in AtMost(ToolkitMayMiss, most_missing) \cup {ToolkitFiles},
       existing \in AtMost(GlobalsMayExist, MaxExisting),
       f \in BOOLEAN, source_from \in BOOLEAN :
      /\ fs = EnvFs((ToolkitFiles \ missing) \cup {ToolkitScript}, existing)
      /\ \E file \in {ToolkitScript} \cup ({InstalledScript} \cap existing) :
            args = Args("init-globals", f, source_from, FALSE, FALSE, file)

\* init-project: the templates are installed but for a few files, or not at all
ProjectEnv(most_missing) ==
    \E missing \in AtMost(TemplatesMayMiss, most_missing) \cup {InstalledTemplates},
       existing \in AtMost(ProjectMayExist, MaxExisting),
       gitignore \in {<<>>} \cup { <<g>> : g \in GitignoreMayHold },
       f \in BOOLEAN, no_mcp \in BOOLEAN, collection \in BOOLEAN :
      /\ fs = LET env == EnvFs(InstalledTemplates \ missing, existing) IN
              IF gitignore = <<>> THEN env
              ELSE Put(env, Append(Cwd, ".gitignore"), File(gitignore[1], FALSE, -2))
      /\ args = Args("init-project", f, FALSE, no_mcp, collection, InstalledScript)

\* the state of a process that has just been started
Started ==
    /\ dirs = DirsOf(fs) \cup {HOME, Toolkit, Cwd, <<"tmp">>}
    /\ plans = <<>>
    /\ pc = "main"
    /\ force = FALSE
    /\ idx = 0
    /\ prompts = <<>>
    /\ counts = NoCounts
    /\ clock = 0
    /\ backup_base = <<>>
    /\ tmp_paths = <<>>
    /\ gi_has_entry = FALSE
    /\ exit_code = -1
    /\ run = 1
    /\ calls = 0
    /\ pre = [fs |-> fs, dirs |-> dirs]

Init == (GlobalsEnv(MaxMissing) \/ ProjectEnv(MaxMissing)) /\ Started

\* one run of either command
Next == InitGlobals \/ InitProject \/ Resolve \/ ReadTime \/ Execute

Spec == Init /\ [][Next]_vars

-----------------------------------------------------------------------------
(* A command run again and again on the tree it left *)

\* a run has ended with a success status; later the same command line is run again
NextRun ==
    /\ pc = "exit"
    /\ exit_code = 0
    /\ run < MaxRuns
    /\ \E t \in (clock + 1)..MaxTick : clock' = t
    /\ run' = run + 1
    /\ plans' = <<>>
    /\ pc' = "main"
    /\ force' = FALSE
    /\ idx' = 0
    /\ prompts' = <<>>
    /\ counts' = NoCounts
    /\ backup_base' = <<>>
    /\ tmp_paths' = <<>>
    /\ gi_has_entry' = FALSE
    /\ exit_code' = -1
    /\ pre' = [fs |-> fs, dirs |-> dirs]
    /\ UNCHANGED <<args, fs, dirs, calls>>

\* the first run finds its sources complete (or not there at all)
InitRuns == (GlobalsEnv(0) \/ ProjectEnv(0)) /\ Started

NextRuns == Next \/ NextRun

SpecRuns == InitRuns /\ [][NextRuns]_vars

-----------------------------------------------------------------------------
(* Properties of the engine *)

DestsDistinct(ps) ==
    \A j, k \in DOMAIN ps : j # k => ps[j].dest # ps[k].dest

NamesDistinct(ps) ==
    \A j, k \in DOMAIN ps : j # k => Name(ps[j].dest) # Name(ps[k].dest)

UpdatePlans == { k \in DOMAIN plans : plans[k].action = "update" /\ ~plans[k].always_update }

\* the backup of plan k holds what its destination held when execute_plans began
BackedUp(k) ==
    LET b == BackupDest(backup_base, plans[k].dest) IN
    /\ b \in DOMAIN fs
    /\ plans[k].dest \in DOMAIN pre.fs
    /\ fs[b].data = pre.fs[plans[k].dest].data

\* the destination of plan k holds its source's content
Delivered(k) ==
    /\ plans[k].dest \in DOMAIN fs
    /\ plans[k].src \in DOMAIN fs
    /\ fs[plans[k].dest].data = fs[plans[k].src].data

\* the destination of plan k no longer holds what it held when execute_plans began
Replaced(k) ==
    /\ plans[k].dest \in DOMAIN pre.fs
    /\ \/ plans[k].dest \notin DOMAIN fs
       \/ fs[plans[k].dest].data # pre.fs[plans[k].dest].data

\* C1, as stated: for a resolved list with pairwise distinct destinations, once
\* execute_plans has returned every update plan has its destination's earlier
\* content in backup_base under the destination's file name, and the source's
\* content in the destination.
C1_Original ==
    (pc = "returned" /\ DestsDistinct(plans))
        => \A k \in UpdatePlans : BackedUp(k) /\ Delivered(k)

\* C1 holds where the destinations' file names are pairwise distinct as well:
\* no two backups of the list then go to the same file of backup_base.
C1_BackupAndDeliver ==
    (pc = "returned" /\ NamesDistinct(plans))
        => \A k \in UpdatePlans : BackedUp(k) /\ Delivered(k)

C1_Witness ==
    /\ pc = "returned"
    /\ NamesDistinct(plans)
    /\ Len(plans) = 2
    /\ UpdatePlans = {1, 2}
    /\ BackedUp(1) /\ BackedUp(2)

\* C2, as stated: in every reachable state, failures included, an update plan's
\* destination that no longer holds its earlier content has that content in
\* backup_base.
C2_Original ==
    \A k \in UpdatePlans : Replaced(k) => BackedUp(k)

\* the step is a backup copy of the current update plan that fails
BackupFails ==
    /\ pc = "execute"
    /\ idx \in UpdatePlans
    /\ exit_code' = 1

\* C2 holds where the destinations' file names are pairwise distinct: in every
\* reachable state an update plan's destination that no longer holds its earlier
\* content has that content in backup_base; and (for any list) a backup step
\* that fails leaves the destination as it was.
C2_BackupBeforeOverwrite ==
    /\ [](NamesDistinct(plans) => \A k \in UpdatePlans : Replaced(k) => BackedUp(k))
    /\ [][BackupFails => fs'[plans[idx].dest] = fs[plans[idx].dest]]_vars

\* an overwrite has failed part-way after its backup was taken
C2_Witness ==
    /\ exit_code = 1
    /\ NamesDistinct(plans)
    /\ \E k \in UpdatePlans :
        /\ Replaced(k)
        /\ BackedUp(k)
        /\ ~Delivered(k)

\* resolve_conflicts has returned from a call on the list
Resolved == pc = "harness" /\ calls >= 1

\* C3: after resolve_conflicts returns on a fresh list, whatever force and the
\* answers were, every plan that is not always_update is install, update or skip;
\* install implies no conflict, update and skip imply a conflict.
C3_Dispositions ==
    Resolved =>
        \A k \in DOMAIN plans :
            /\ ~plans[k].always_update => plans[k].action \in {"install", "update", "skip"}
            /\ plans[k].action = "install" => ~plans[k].conflict
            /\ plans[k].action = "update" => plans[k].conflict
            /\ plans[k].action = "skip" => plans[k].conflict

C3_Witness ==
    /\ Resolved
    /\ calls = 1
    /\ Len(plans) = 2
    /\ \E j, k \in DOMAIN plans : plans[j].action = "update" /\ plans[k].action = "skip"

\* C8: when no plan has a conflict, resolve_conflicts sets every plan to install
\* and issues no prompt, with force or without.
C8_NoConflictInstall ==
    (Resolved /\ Conflicts(plans) = {}) =>
        /\ \A k \in DOMAIN plans : plans[k].action = "install"
        /\ prompts = <<>>

C8_Witness ==
    /\ Resolved
    /\ Conflicts(plans) = {}
    /\ Len(plans) = 2
    /\ ~force
    /\ \E k \in DOMAIN plans : plans[k].dest \in DOMAIN fs

\* a later call of resolve_conflicts with force, on the list an earlier call left
SecondForcedCall == pc = "resolve" /\ force /\ calls >= 2

\* C9: with force, resolve_conflicts issues no prompt and sets every conflicting
\* plan to update and every other plan to install; a second call with force
\* leaves every disposition as it was.
C9_ForceIdempotent ==
    /\ []((Resolved /\ calls = 1 /\ force) =>
            /\ prompts = <<>>
            /\ \A k \in DOMAIN plans :
                plans[k].action = IF plans[k].conflict THEN "update" ELSE "install")
    /\ [][SecondForcedCall => (Actions(plans') = Actions(plans) /\ prompts' = <<>>)]_vars

C9_Witness ==
    /\ Resolved
    /\ calls = 2
    /\ force
    /\ prompts = <<>>
    /\ \E j, k \in DOMAIN plans : plans[j].action = "update" /\ plans[k].action = "install"

Count(S) == Cardinality(S)

Total(c) == c.installed + c.updated + c.skipped

NotAlways == { k \in DOMAIN plans : ~plans[k].always_update }

\* C10, as stated: the counts execute_plans returns add up to the number of plans
\* that are not always_update.
C10_Original ==
    pc = "returned" => Total(counts) = Count(NotAlways)

\* C10, amended: the counts add up to the number of plans, every always_update
\* plan being counted in updated: installed and skipped are the install and skip
\* plans that are not always_update, updated is the update plans plus the
\* always_update plans.
C10_CountConservation ==
    pc = "returned" =>
        /\ Total(counts) = Len(plans)
        /\ counts.installed = Count({ k \in NotAlways : plans[k].action = "install" })
        /\ counts.skipped = Count({ k \in NotAlways : plans[k].action = "skip" })
        /\ counts.updated = Count(UpdatePlans) + Count(DOMAIN plans \ NotAlways)

C10_Witness ==
    /\ pc = "returned"
    /\ Len(plans) = 2
    /\ counts.updated = 2
    /\ Count(NotAlways) = 1

SkipPlans == { k \in DOMAIN plans : plans[k].action = "skip" }

\* the destination of plan k is the file it was when execute_plans was called:
\* content, mode and modification time
Untouched(k) ==
    /\ plans[k].dest \in DOMAIN fs
    /\ plans[k].dest \in DOMAIN pre.fs
    /\ fs[plans[k].dest] = pre.fs[plans[k].dest]

\* the one resolve_conflicts call on the list was answered Skip all existing
SkipAllAnswered ==
    /\ calls = 1
    /\ \E k \in DOMAIN prompts :
        prompts[k].kind = "select" /\ prompts[k].answer = "Skip all existing"

\* C11, as stated: once execute_plans has returned, every skip plan's destination
\* has the content and modification time it had before, and skipped counts the
\* skip plans; and after the answer Skip all existing no destination that existed
\* when the plans were made is changed by execute_plans.
C11_Original ==
    /\ pc = "returned" =>
        /\ \A k \in SkipPlans : Untouched(k)
        /\ counts.skipped = Count(SkipPlans)
    /\ SkipAllAnswered =>
        \A k \in DOMAIN plans : plans[k].dest \in DOMAIN pre.fs => Untouched(k)

\* C11, amended: the same, the last part for the plans that are not
\* always_update: after the answer Skip all existing no destination of such a
\* plan that existed when the plans were made is changed by execute_plans.
C11_SkipNoOp ==
    /\ pc = "returned" =>
        /\ \A k \in SkipPlans : Untouched(k)
        /\ counts.skipped = Count(SkipPlans)
    /\ SkipAllAnswered =>
        \A k \in NotAlways : plans[k].dest \in DOMAIN pre.fs => Untouched(k)

\* a skipped plan beside an installed one, after Skip all existing
C11_Witness ==
    /\ pc = "returned"
    /\ SkipAllAnswered
    /\ Len(plans) = 2
    /\ \E j, k \in DOMAIN plans :
        /\ plans[j].action = "skip" /\ Untouched(j)
        /\ plans[k].action = "install" /\ Delivered(k)
    /\ counts.skipped = 1

\* C15: resolve_conflicts only ever assigns to a pending plan: a plan with
\* another action keeps it through every step, for any list, force and answers;
\* an action only changes from pending to install, update or skip; so a call on
\* a fully decided list changes nothing.
C15_OnlyPending ==
    [][/\ DOMAIN plans' = DOMAIN plans
       /\ \A k \in DOMAIN plans :
            /\ plans[k].action # "pending" => plans'[k].action = plans[k].action
            /\ plans'[k].action # plans[k].action =>
                    plans'[k].action \in {"install", "update", "skip"}]_vars

\* a call has left alone a plan that came in decided against its conflict flag,
\* and has set another plan to update on the user's yes
C15_Witness ==
    /\ Resolved
    /\ calls = 1
    /\ \E j, k \in DOMAIN plans :
        /\ plans[k].conflict /\ plans[k].action = "install"
        /\ plans[j].action = "update"
        /\ \E i \in DOMAIN prompts : prompts[i] = Confirm(j, "yes")

\* the call that has returned was answered Decide per file
DecidedPerFile ==
    /\ Resolved
    /\ prompts # <<>>
    /\ prompts[1] = Select("Decide per file")

\* the confirmations of the call, in the order they were asked
Confirmations == Tail(prompts)

\* what one iteration of the per-file loop does to the plan it is at
PerFileStep ==
    LET p == plans[idx] IN
    /\ \A k \in DOMAIN plans \ {idx} : plans'[k] = plans[k]
    /\ IF p.action # "pending"
       THEN plans'[idx] = p /\ prompts' = prompts
       ELSE IF ~p.conflict
       THEN plans'[idx].action = "install" /\ prompts' = prompts
       ELSE \E answer \in Answers :
            /\ prompts' = Append(prompts, Confirm(idx, answer))
            /\ plans'[idx].action = IF answer = "yes" THEN "update" ELSE "skip"
    /\ exit_code' = exit_code
    /\ idx' = idx + 1
    /\ pc' = IF idx < Len(plans) THEN "per_file" ELSE "harness"

\* C16: after Decide per file, resolve_conflicts goes through the plans in list
\* order; it sets a pending plan without conflict to install and asks nothing;
\* for a pending plan with a conflict it asks one confirmation and sets update
\* on yes, skip on no or on a dismissed confirmation; a dismissed confirmation
\* ends nothing, the next plan is looked at.  When it returns no plan is pending,
\* and the confirmations asked are about conflicting plans, in list order, each
\* plan once, each answered as the plan's action says.
C16_DecidePerFile ==
    /\ [][pc = "per_file" => PerFileStep]_vars
    /\ [][(pc = "resolve" /\ prompts' # prompts /\ prompts'[1] = Select("Decide per file"))
            => (pc' = "per_file" /\ idx' = 1 /\ plans' = plans)]_vars
    /\ [](DecidedPerFile =>
            /\ \A k \in DOMAIN plans : plans[k].action # "pending"
            /\ \A i \in DOMAIN Confirmations :
                /\ Confirmations[i].kind = "confirm"
                /\ Confirmations[i].plan \in Conflicts(plans)
                /\ plans[Confirmations[i].plan].action =
                        (IF Confirmations[i].answer = "yes" THEN "update" ELSE "skip")
                /\ \A j \in DOMAIN Confirmations :
                        i < j => Confirmations[i].plan < Confirmations[j].plan)

\* the first confirmation was dismissed, the second was still asked
C16_Witness ==
    /\ DecidedPerFile
    /\ prompts = <<Select("Decide per file"), Confirm(1, "None"), Confirm(2, "yes")>>
    /\ plans[1].action = "skip"
    /\ plans[2].action = "update"

-----------------------------------------------------------------------------
(* Properties of the two commands *)

\* the aggregate prompt of this run was answered Quit, or dismissed
Quitted ==
    \E k \in DOMAIN prompts :
        prompts[k].kind = "select" /\ prompts[k].answer \in {"Quit", "None"}

\* C4: when the aggregate prompt is answered Quit or dismissed, the run ends with
\* a success status, every plan is still pending, and the files and directories
\* are those the run found: nothing created, overwritten or left behind.
C4_QuitLeavesNothing ==
    Quitted =>
        /\ exit_code = 0
        /\ \A k \in DOMAIN plans : plans[k].action = "pending"
        /\ pc = "exit" => (fs = pre.fs /\ dirs = pre.dirs)

\* the run got past the precondition check: the plan list was built
PastPrecondition == args.command = "init-globals" /\ plans # <<>>

\* the installed script holds the running script's content and is executable
SelfInstalled ==
    /\ InstalledScript \in DOMAIN fs
    /\ args.file \in DOMAIN fs
    /\ fs[InstalledScript].data = fs[args.file].data
    /\ fs[InstalledScript].exec

IsBackup(p) == Len(p) >= 3 /\ p[Len(p) - 2] = "backups"

\* C6: a backup file that an earlier run wrote (one that was there when this
\* run's execute_plans was called) is never overwritten or replaced by this run.
C6_BackupsKept ==
    \A b \in DOMAIN pre.fs : IsBackup(b) => (b \in DOMAIN fs /\ fs[b] = pre.fs[b])

GiPath == Append(Cwd, ".gitignore")

\* what .gitignore holds (nothing, if it is not there)
GiData(f) == IF GiPath \in DOMAIN f THEN f[GiPath].data ELSE <<>>

\* how often the entry occurs in a text
Occurrences(data) == Cardinality({ k \in DOMAIN data : ContainsEntry(data[k]) })

\* the step completes the .gitignore handling of a run
GiStepDone == pc = "gitignore" /\ pc' = "finally" /\ exit_code' = -1

\* a run of init-project has run to its end: not cancelled, nothing failed
ProjectCompleted ==
    args.command = "init-project" /\ pc = "exit" /\ exit_code = 0 /\ ~Quitted

\* C12: a .gitignore that holds the entry is left byte-identical by every step of
\* every run; the step that handles a .gitignore without the entry appends to it
\* a newline (only if it was not empty), the comment line and the entry line, one
\* occurrence more; nothing else changes the number of occurrences; and after a
\* completed run the entry is there.  So after any number of completed runs it
\* occurs once more than before the first, or as often if it was there.
C12_GitignoreIdempotent ==
    /\ [][HasEntry(GiData(fs)) => (GiPath \in DOMAIN fs' /\ fs'[GiPath] = fs[GiPath])]_vars
    /\ [][(GiStepDone /\ ~HasEntry(GiData(fs))) =>
            /\ GiData(fs') = GiData(fs) \o (IF GiData(fs) # <<>> THEN <<NL>> ELSE <<>>)
                                        \o <<GiComment, NL, GiEntry, NL>>
            /\ Occurrences(GiData(fs')) = Occurrences(GiData(fs)) + 1]_vars
    /\ [][Occurrences(GiData(fs')) # Occurrences(GiData(fs)) =>
            (GiStepDone /\ Occurrences(GiData(fs)) = 0)]_vars
    /\ [](ProjectCompleted => HasEntry(GiData(fs)))

\* a second run has completed on the .gitignore the first run appended to
C12_Witness ==
    /\ ProjectCompleted
    /\ run = 2
    /\ GiData(fs) = <<"node_modules/", NL, NL, GiComment, NL, GiEntry, NL>>

\* the directory init-globals takes the toolkit from: --from, or the script's
FromDir == IF args.source_from THEN Toolkit ELSE Parent(args.file)

\* a prerequisite was missing when the run began: the source directory does not
\* hold agents/ and templates/ (init-globals), or the templates root is not there
\* (init-project)
PrerequisiteMissing ==
    IF args.command = "init-globals"
    THEN ~(Append(FromDir, "agents") \in pre.dirs /\ Append(FromDir, "templates") \in pre.dirs)
    ELSE TEMPLATES_DIR \notin pre.dirs

\* C13: when a prerequisite is missing, the run ends with a failure status
\* before a plan is built and before anything is written.
C13_PrerequisiteFailure ==
    PrerequisiteMissing =>
        /\ pc \in {"main", "exit"}
        /\ pc = "exit" => exit_code = 1
        /\ plans = <<>>
        /\ fs = pre.fs /\ dirs = pre.dirs

\* C14: no plan is in the list for a source file that is not there (so that no
\* copy of execute_plans finds its source missing and fails the run).
C14_AbsentOmitted ==
    pc \notin {"finally", "exit"} => \A k \in DOMAIN plans : plans[k].src \in DOMAIN fs

\* a filesystem operation of execute_plans has failed, at plan idx
ExecFailed == exit_code = 1 /\ backup_base # <<>> /\ idx \in DOMAIN plans

\* plan j has been carried out on the files execute_plans found
Applied(j) ==
    LET p == plans[j] IN
    IF p.always_update
    THEN /\ p.dest \in DOMAIN fs
         /\ fs[p.dest].data = pre.fs[p.src].data
         /\ fs[p.dest].exec
    ELSE IF p.action = "skip"
    THEN Untouched(j)
    ELSE /\ p.dest \in DOMAIN fs
         /\ fs[p.dest] = pre.fs[p.src]
         /\ p.action = "update" => BackedUp(j)

\* plan j has had no effect: its destination, its backup and its directory are
\* as execute_plans found them (a directory may be there for an earlier plan or
\* for the backups)
NoEffect(j) ==
    LET p == plans[j] IN
    /\ IF p.dest \in DOMAIN pre.fs THEN Untouched(j) ELSE p.dest \notin DOMAIN fs
    /\ BackupDest(backup_base, p.dest) \notin DOMAIN fs
    /\ Parent(p.dest) \in dirs =>
        \/ Parent(p.dest) \in pre.dirs
        \/ Parent(p.dest) \in Ancestors(backup_base)
        \/ \E i \in 1..idx : Parent(p.dest) \in Ancestors(Parent(plans[i].dest))

\* C17: when a filesystem operation of execute_plans fails at plan k, control
\* leaves execute_plans at once (to the cleanup, then the process ends): plans
\* 1..k-1 stay applied, no plan after k has any effect, execute_plans does not
\* return, and .gitignore is left as it was.
C17_FailurePropagates ==
    ExecFailed =>
        /\ pc \in {"finally", "exit"}
        /\ \A j \in 1..(idx - 1) : Applied(j)
        /\ \A j \in (idx + 1)..Len(plans) : NoEffect(j)
        /\ GiPath \in DOMAIN fs <=> GiPath \in DOMAIN pre.fs
        /\ GiPath \in DOMAIN fs => fs[GiPath] = pre.fs[GiPath]

\* init-project has ended on a failure at a later plan, after an update
C17_Witness ==
    /\ ExecFailed
    /\ args.command = "init-project"
    /\ pc = "exit"
    /\ idx = 3
    /\ plans[1].action = "update"
    /\ Applied(1) /\ Applied(2)
    /\ ~HasEntry(GiData(fs))

\* execute_plans has been called in this run
ExecuteStarted == backup_base # <<>>

\* every destination is as the run found it, and no backup has been taken
NothingWritten ==
    /\ \A k \in DOMAIN plans :
        IF plans[k].dest \in DOMAIN pre.fs
        THEN Untouched(k)
        ELSE plans[k].dest \notin DOMAIN fs
    /\ \A p \in DOMAIN fs : ~IsBackup(p)

\* C18: every prompt comes before execute_plans is called, when nothing has been
\* written; while a plan is pending no destination is written and no backup
\* taken; once execute_plans is called no prompt is issued, and the run ends
\* only after the last plan or on a failure.
C18_PromptsBeforeWrites ==
    /\ [][prompts' # prompts => (~ExecuteStarted /\ NothingWritten)]_vars
    /\ []((\E k \in DOMAIN plans : plans[k].action = "pending") =>
            (~ExecuteStarted /\ NothingWritten))
    /\ []((ExecuteStarted /\ pc = "exit") => (exit_code = 1 \/ idx = Len(plans) + 1))

\* a run that asked file by file, then took a backup and ran to its end
C18_Witness ==
    /\ pc = "exit"
    /\ exit_code = 0
    /\ Len(prompts) >= 2
    /\ idx = Len(plans) + 1
    /\ \E p \in DOMAIN fs : IsBackup(p)

\* C19: in every plan list either command builds, the destinations are pairwise
\* distinct and so are their file names; no backup file, once written, is
\* written again in the run.
C19_BuiltListsDistinct ==
    /\ [](DestsDistinct(plans) /\ NamesDistinct(plans))
    /\ [][\A b \in DOMAIN fs : IsBackup(b) => (b \in DOMAIN fs' /\ fs'[b] = fs[b])]_vars

\* init-project has built its longest list and has taken a backup
C19_Witness ==
    /\ args.command = "init-project"
    /\ Len(plans) = 6
    /\ pc = "exit"
    /\ exit_code = 0
    /\ \E k \in DOMAIN plans :
        plans[k].action = "update" /\ BackupDest(backup_base, plans[k].dest) \in DOMAIN fs

\* a temporary rendered file: one in the temporary directory
IsTemp(p) == p[1] = "tmp"

\* C7: when a run of init-project has ended, on whatever path, no temporary
\* rendered file exists.
C7_TempsRemoved ==
    (args.command = "init-project" /\ pc = "exit") =>
        \A p \in DOMAIN fs : ~IsTemp(p)

====
